---------------------------- MODULE Spec2Model ----------------------------
(* State-machine model of the CIVI-Connect client screens:                 *)
(*   - HomeScreen   (src/admin.tsx, second component, lines 464-738)       *)
(*   - AdminScreen  (src/admin.tsx, first component, lines 50-386)         *)
(*   - ReportScreen (src/unnamed/part_000 and the voice variant part_001)  *)
(* Each screen has its own specification (SpecHome, SpecAdmin, ...) over   *)
(* the shared variables; the backend reached over HTTP and the socket is   *)
(* modelled as an environment that answers requests and emits events.      *)
EXTENDS Integers, Sequences, FiniteSets, Bags, TLC

(***************************************************************************)
(* Shared vocabulary                                                       *)
(***************************************************************************)

\* Issue.status values (spec section 3; getStatusColor / getMarkerColor cases)
Statuses == {"reported", "acknowledged", "in_progress", "resolved"}

\* statusActions[*].value: the statuses an administrator can set
StatusActions == {"acknowledged", "in_progress", "resolved"}

\* Largest number of issues the backend holds in a run
MaxIssues == 3

\* The title the backend stores for issue id (a sequence of characters)
TitleOf(id) == IF id = 1 THEN <<"a">> ELSE IF id = 2 THEN <<"&">> ELSE <<"b">>

\* An Issue view-model as the server JSON carries it
Issue(id, status) == [id |-> id, status |-> status, title |-> TitleOf(id)]

\* Response of a request that has not been answered yet
NoResp == [kind |-> "none", issues |-> <<>>, total |-> 0]

\* A 2xx answer of GET /api/issues: {issues: Issue[], total: number}
OkResp(list) == [kind |-> "ok", issues |-> list, total |-> Len(list)]

\* A non-2xx answer with a JSON error body (no issues, no total)
ErrResp == [kind |-> "error", issues |-> <<>>, total |-> 0]

\* fetch() rejected (network failure) or the body was not JSON
RejectResp == [kind |-> "reject", issues |-> <<>>, total |-> 0]

\* Number of entries of a list with the given status
RECURSIVE CountStatus(_, _)
CountStatus(list, st) ==
    IF list = <<>> THEN 0
    ELSE (IF Head(list).status = st THEN 1 ELSE 0) + CountStatus(Tail(list), st)

\* The record a handler leaves in hAct: its name, its payload, and the message
\* of the Alert.alert it raised ("" when it raised none)
ActAlert(name, id, status, alert) ==
    [name |-> name, id |-> id, status |-> status, alert |-> alert]

Act(name, id, status) == ActAlert(name, id, status, "")

\* useState<AdminStats | null>(null)
NullStats ==
    [loaded |-> FALSE, total_issues |-> 0, pending_issues |-> 0,
     in_progress_issues |-> 0, resolved_issues |-> 0]

\* The 'Confirm Delete' dialog when it is not shown
NoConfirm == [open |-> FALSE, id |-> 0, q |-> <<>>]

VARIABLES
    db,            \* backend: the stored issues, in id order
    hAct,          \* history: the handler that ran last, with its payload
    \* ---- HomeScreen ----
    homePhase,     \* "init" (not mounted yet) | "mounted" | "unmounted"
    homeIssues,    \* useState<Issue[]>([])
    homeStats,     \* useState<Stats>
    homeLoading,   \* useState(true)
    homeUser,      \* useState<any>(null): "null" or the cached user
    homeLocation,  \* useState<LocationObject | null>(null): "null" or "loc"
    homeInit,      \* initializeScreen: the calls of Promise.all not settled yet
    homeNet,       \* bag of GET /api/issues requests in flight
    sockOpened,    \* number of sockets the screen has opened (io(...) calls)
    sockConnected, \* number of those still connected
    sockQ,         \* events the server emitted, not delivered yet (FIFO)
    hGets,         \* history: GET /api/issues requests the home screen issued
    hNewIssue,     \* history: new_issue events handled
    hServerEvents  \* history: number of backend changes so far

homeVars == <<homePhase, homeIssues, homeStats, homeLoading, homeUser,
              homeLocation, homeInit, homeNet, sockOpened, sockConnected,
              sockQ, hGets, hNewIssue, hServerEvents>>

    \* ---- AdminScreen ----
VARIABLES
    cachedUser,      \* AsyncStorage 'user': "null" or the stored user's role
    adminPhase,      \* "init" (not mounted yet) | "user" (loadUser pending) | "ready"
    adminUser,       \* useState<any>(null): "null" or the user's role
    adminStats,      \* useState<AdminStats | null>(null)
    adminIssues,     \* useState<Issue[]>([])
    adminLoading,    \* useState(true)
    adminRefreshing, \* useState(false)
    searchQuery,     \* useState(''): a sequence of characters
    adminTimers,     \* pending setTimeout callbacks of the search effect
    adminConfirm,    \* the 'Confirm Delete' dialog
    adminNet,        \* bag of requests in flight
    hSinceEdit,      \* history: ms since the last search edit (capped at DebounceMs)
    hFired,          \* history: requests the search effect issued for the current query
    hIntermediate,   \* history: a query that had a request sent was replaced within DebounceMs
    hEdits,          \* history: number of search edits
    hCancelled,      \* history: number of timers an edit cancelled
    hMutations,      \* history: number of status / remove presses and refreshes
    hFailed          \* history: some request has failed

adminVars == <<cachedUser, adminPhase, adminUser, adminStats, adminIssues,
               adminLoading, adminRefreshing, searchQuery, adminTimers,
               adminConfirm, adminNet, hSinceEdit, hFired, hIntermediate,
               hEdits, hCancelled, hMutations, hFailed>>

    \* ---- ReportScreen ----
VARIABLES
    repVariant,      \* "plain" (form only) or "voice" (form, dictation, translation)
    repPhase,        \* "init" before the mount effect, then "mounted"
    repInit,         \* the steps of initializeScreen's calls still to settle
    repUser,         \* useState user: "null" or the stored user's role
    repLocation,     \* useState location
    repForm,         \* useState formData
    repPhoto,        \* useState capturedPhoto
    repCamera,       \* useState hasCameraPermission: "null", "granted" or "denied"
    repCameraVisible, \* useState cameraVisible
    repLoading,      \* useState loading
    repNet,          \* POST /api/issues requests in flight
    repAlerts,       \* success alerts on screen, each with its OK handler's closure
    repTrans,        \* texts whose translate() call has not settled
    hPosts,          \* history: number of POST requests sent
    hHeard           \* history: the utterances appended to the description since
                     \* it was last typed or reset

reportVars == <<repVariant, repPhase, repInit, repUser, repLocation, repForm,
                repPhoto, repCamera, repCameraVisible, repLoading, repNet,
                repAlerts, repTrans, hPosts, hHeard>>

vars == <<db, hAct, homeVars, adminVars, reportVars>>

\* useState<Location.LocationObject | null>(null)
NoLocation == [known |-> FALSE, latitude |-> 0, longitude |-> 0, accuracy |-> 0]

\* location?.coords.<field> || 0
CoordOr0(loc, field) == IF loc.known /\ loc[field] # 0 THEN loc[field] ELSE 0

\* The object resetForm passes to setFormData; it is also the initial formData
\* when loc is null
EmptyForm(loc) ==
    [title |-> "", description |-> "", translated |-> "", issue_type |-> "",
     latitude |-> CoordOr0(loc, "latitude"),
     longitude |-> CoordOr0(loc, "longitude"),
     accuracy |-> CoordOr0(loc, "accuracy")]

\* The report screen before it is mounted
ReportIdle ==
    /\ repVariant = "plain"
    /\ repPhase = "init"
    /\ repInit = {}
    /\ repUser = "null"
    /\ repLocation = NoLocation
    /\ repForm = EmptyForm(NoLocation)
    /\ repPhoto = "null"
    /\ repCamera = "null"
    /\ repCameraVisible = FALSE
    /\ repLoading = FALSE
    /\ repNet = {}
    /\ repAlerts = {}
    /\ repTrans = {}
    /\ hPosts = 0
    /\ hHeard = <<>>

(***************************************************************************)
(* HomeScreen                                                              *)
(***************************************************************************)

\* Bound: backend changes (creations and status updates) in a run
MaxServerEvents == 2

HomeInitCalls == {"getLocation", "loadUser", "loadIssues", "loadStats"}

HomeReq(fn, init) == [fn |-> fn, init |-> init, resp |-> NoResp]

\* setState on an unmounted component is dropped by the UI runtime
HomeSet(new, old) == IF homePhase = "mounted" THEN new ELSE old

\* Promise.all([...]) of initializeScreen settles when its last call does
HomeSettle(call) ==
    /\ homeInit' = homeInit \ {call}
    /\ homeLoading' = IF call \in homeInit /\ homeInit \ {call} = {}
                        THEN HomeSet(FALSE, homeLoading) ELSE homeLoading

\* The socket opened by connectSocket: io(API_BASE_URL)
ConnectSocket ==
    /\ sockOpened' = sockOpened + 1
    /\ sockConnected' = sockConnected + 1

\* useEffect(() => { initializeScreen(); connectSocket(); }, [])
HomeMount ==
    /\ homePhase = "init"
    /\ homePhase' = "mounted"
    /\ homeInit' = HomeInitCalls
    /\ homeNet' = SetToBag({HomeReq("loadIssues", TRUE), HomeReq("loadStats", TRUE)})
    /\ hGets' = hGets + 2
    /\ ConnectSocket
    /\ hAct' = Act("mount", 0, "")
    /\ UNCHANGED <<db, homeIssues, homeStats, homeLoading, homeUser,
                   homeLocation, sockQ, hNewIssue, hServerEvents>>
    /\ UNCHANGED <<adminVars, reportVars>>

\* The effect returns no cleanup (connectSocket's return value is dropped),
\* so unmounting runs nothing: the socket stays connected.
HomeUnmountCleanup == sockConnected

HomeUnmount ==
    /\ homePhase = "mounted"
    /\ homePhase' = "unmounted"
    /\ sockConnected' = HomeUnmountCleanup
    /\ hAct' = Act("unmount", 0, "")
    /\ UNCHANGED <<db, homeIssues, homeStats, homeLoading, homeUser,
                   homeLocation, homeInit, homeNet, sockOpened, sockQ,
                   hGets, hNewIssue, hServerEvents>>
    /\ UNCHANGED <<adminVars, reportVars>>

\* getLocation: position acquired, or permission denied / an error (no state set)
HomeGetLocation(outcome) ==
    /\ "getLocation" \in homeInit
    /\ homeLocation' = IF outcome = "located" THEN HomeSet("loc", homeLocation)
                        ELSE homeLocation
    /\ HomeSettle("getLocation")
    /\ hAct' = ActAlert("getLocation", 0, outcome,
                        IF outcome = "denied"
                          THEN "Location permission is required to show nearby issues"
                          ELSE "")
    /\ UNCHANGED <<db, homePhase, homeIssues, homeStats, homeUser, homeNet,
                   sockOpened, sockConnected, sockQ, hGets, hNewIssue,
                   hServerEvents>>
    /\ UNCHANGED <<adminVars, reportVars>>

\* loadUser: AsyncStorage.getItem('user'), parsed when present
HomeLoadUser(cached) ==
    /\ "loadUser" \in homeInit
    /\ homeUser' = IF cached # "null" THEN HomeSet(cached, homeUser) ELSE homeUser
    /\ HomeSettle("loadUser")
    /\ hAct' = Act("loadUser", 0, cached)
    /\ UNCHANGED <<db, homePhase, homeIssues, homeStats, homeLocation, homeNet,
                   sockOpened, sockConnected, sockQ, hGets, hNewIssue,
                   hServerEvents>>
    /\ UNCHANGED <<adminVars, reportVars>>

\* The backend answers one GET /api/issues in flight with its current issues
HomeServerAnswer(r) ==
    /\ BagIn(r, homeNet)
    /\ r.resp.kind = "none"
    /\ homeNet' = (homeNet (-) SetToBag({r})) (+) SetToBag({[r EXCEPT !.resp = OkResp(db)]})
    /\ hAct' = Act("server", 0, "")
    /\ UNCHANGED <<db, homePhase, homeIssues, homeStats, homeLoading, homeUser,
                   homeLocation, homeInit, sockOpened, sockConnected, sockQ,
                   hGets, hNewIssue, hServerEvents>>
    /\ UNCHANGED <<adminVars, reportVars>>

\* loadIssues after its awaits: setIssues(data.issues || []); a rejection
\* (network error, body not JSON) is caught and logged. response.ok is not read.
LoadIssuesApply(resp, old) ==
    IF resp.kind = "reject" THEN old ELSE resp.issues

\* (mutant) every issue that is no longer 'reported' counts as resolved
LoadStatsApplyLoose(resp, old) ==
    IF resp.kind = "reject" THEN old
    ELSE LET total == resp.total
             resolved == Len(resp.issues) - CountStatus(resp.issues, "reported")
         IN [total_issues |-> total, resolved_issues |-> resolved,
             pending_issues |-> total - resolved]

\* loadStats after its awaits
LoadStatsApply(resp, old) ==
    IF resp.kind = "reject" THEN old
    ELSE LET total == resp.total
             resolved == CountStatus(resp.issues, "resolved")
         IN [total_issues |-> total, resolved_issues |-> resolved,
             pending_issues |-> total - resolved]

\* The continuation of loadIssues / loadStats for request r answered with resp
HomeContinue(r, resp) ==
    /\ homeNet' = homeNet (-) SetToBag({r})
    /\ homeIssues' = IF r.fn = "loadIssues"
                       THEN HomeSet(LoadIssuesApply(resp, homeIssues), homeIssues)
                       ELSE homeIssues
    /\ homeStats' = IF r.fn = "loadStats"
                      THEN HomeSet(LoadStatsApply(resp, homeStats), homeStats)
                      ELSE homeStats
    /\ IF r.init
         THEN HomeSettle(r.fn)
         ELSE UNCHANGED <<homeInit, homeLoading>>
    /\ hAct' = Act(r.fn, 0, resp.kind)

\* A 2xx answer reaches the screen
HomeReceive(r) ==
    /\ BagIn(r, homeNet)
    /\ r.resp.kind = "ok"
    /\ HomeContinue(r, r.resp)
    /\ UNCHANGED <<db, homePhase, homeUser, homeLocation, sockOpened,
                   sockConnected, sockQ, hGets, hNewIssue, hServerEvents>>
    /\ UNCHANGED <<adminVars, reportVars>>

\* The request fails: a non-2xx answer with an error body, or a rejection
HomeFail(r, resp) ==
    /\ BagIn(r, homeNet)
    /\ r.resp.kind = "none"
    /\ HomeContinue(r, resp)
    /\ UNCHANGED <<db, homePhase, homeUser, homeLocation, sockOpened,
                   sockConnected, sockQ, hGets, hNewIssue, hServerEvents>>
    /\ UNCHANGED <<adminVars, reportVars>>

\* The backend emits to every connected socket
Emit(ev) == IF sockConnected > 0 THEN Append(sockQ, ev) ELSE sockQ

\* Another client creates an issue: the backend stores it and emits new_issue
ServerCreate ==
    /\ homePhase # "init"
    /\ hServerEvents < MaxServerEvents
    /\ Len(db) < MaxIssues
    /\ db' = Append(db, Issue(Len(db) + 1, "reported"))
    /\ sockQ' = Emit(Act("new_issue", Len(db) + 1, "reported"))
    /\ hServerEvents' = hServerEvents + 1
    /\ hAct' = Act("server", 0, "")
    /\ UNCHANGED <<homePhase, homeIssues, homeStats, homeLoading, homeUser,
                   homeLocation, homeInit, homeNet, sockOpened, sockConnected,
                   hGets, hNewIssue>>
    /\ UNCHANGED <<adminVars, reportVars>>

\* An administrator changes a status: the backend stores it and emits issue_updated
ServerUpdate(i, s) ==
    /\ homePhase # "init"
    /\ hServerEvents < MaxServerEvents
    /\ i \in 1..Len(db)
    /\ db[i].status # s
    /\ db' = [db EXCEPT ![i].status = s]
    /\ sockQ' = Emit(Act("issue_updated", i, s))
    /\ hServerEvents' = hServerEvents + 1
    /\ hAct' = Act("server", 0, "")
    /\ UNCHANGED <<homePhase, homeIssues, homeStats, homeLoading, homeUser,
                   homeLocation, homeInit, homeNet, sockOpened, sockConnected,
                   hGets, hNewIssue>>
    /\ UNCHANGED <<adminVars, reportVars>>

\* (mutant) the id test is lost: every entry takes the pushed status
PatchStatusAll(prev, issue_id, status) ==
    [k \in 1..Len(prev) |-> [prev[k] EXCEPT !.status = status]]

\* prev.map(issue => issue.id === data.issue_id ? {...issue, status} : issue)
PatchStatus(prev, issue_id, status) ==
    [k \in 1..Len(prev) |->
        IF prev[k].id = issue_id THEN [prev[k] EXCEPT !.status = status]
        ELSE prev[k]]

\* socket.on('issue_updated', (data) => setIssues(prev => prev.map(...)))
OnIssueUpdated ==
    /\ sockQ # <<>>
    /\ Head(sockQ).name = "issue_updated"
    /\ sockQ' = Tail(sockQ)
    /\ homeIssues' = HomeSet(PatchStatus(homeIssues, Head(sockQ).id, Head(sockQ).status),
                             homeIssues)
    /\ hAct' = Head(sockQ)
    /\ UNCHANGED <<db, homePhase, homeStats, homeLoading, homeUser, homeLocation,
                   homeInit, homeNet, sockOpened, sockConnected, hGets,
                   hNewIssue, hServerEvents>>
    /\ UNCHANGED <<adminVars, reportVars>>

\* (mutant) the handler reloads the statistics as well
NewIssueRequestsBoth ==
    SetToBag({HomeReq("loadIssues", FALSE), HomeReq("loadStats", FALSE)})

\* The requests the new_issue handler issues: loadIssues() and nothing else
NewIssueRequests == SetToBag({HomeReq("loadIssues", FALSE)})

\* socket.on('new_issue', (data) => { loadIssues(); })
OnNewIssue ==
    /\ sockQ # <<>>
    /\ Head(sockQ).name = "new_issue"
    /\ sockQ' = Tail(sockQ)
    /\ homeNet' = homeNet (+) NewIssueRequests
    /\ hGets' = hGets + BagCardinality(NewIssueRequests)
    /\ hNewIssue' = hNewIssue + 1
    /\ hAct' = Head(sockQ)
    /\ UNCHANGED <<db, homePhase, homeIssues, homeStats, homeLoading, homeUser,
                   homeLocation, homeInit, sockOpened, sockConnected,
                   hServerEvents>>
    /\ UNCHANGED <<adminVars, reportVars>>

\* The admin screen before it is mounted
AdminUnmounted ==
    /\ adminPhase = "init"
    /\ adminUser = "null"
    /\ adminStats = NullStats
    /\ adminIssues = <<>>
    /\ adminLoading = TRUE
    /\ adminRefreshing = FALSE
    /\ searchQuery = <<>>
    /\ adminTimers = {}
    /\ adminConfirm = NoConfirm
    /\ adminNet = EmptyBag
    /\ hSinceEdit = 0
    /\ hFired = 0
    /\ hIntermediate = FALSE
    /\ hEdits = 0
    /\ hCancelled = 0
    /\ hMutations = 0
    /\ hFailed = FALSE

\* The admin screen before it is mounted, nothing stored under 'user'
AdminIdle == cachedUser = "null" /\ AdminUnmounted

InitHome ==
    /\ db = <<Issue(1, "reported")>>
    /\ hAct = Act("none", 0, "")
    /\ homePhase = "init"
    /\ homeIssues = <<>>
    /\ homeStats = [total_issues |-> 0, resolved_issues |-> 0, pending_issues |-> 0]
    /\ homeLoading = TRUE
    /\ homeUser = "null"
    /\ homeLocation = "null"
    /\ homeInit = {}
    /\ homeNet = EmptyBag
    /\ sockOpened = 0
    /\ sockConnected = 0
    /\ sockQ = <<>>
    /\ hGets = 0
    /\ hNewIssue = 0
    /\ hServerEvents = 0
    /\ AdminIdle
    /\ ReportIdle

\* getLocation and loadUser are device-local: in SpecHome they settle before
\* the first network or socket event
HomeLocalSettled == homeInit \cap {"getLocation", "loadUser"} = {}

NextHome ==
    \/ HomeMount
    \/ \E o \in {"denied", "located"} : HomeGetLocation(o)
    \/ \E c \in {"null", "citizen"} : HomeLoadUser(c)
    \/ HomeLocalSettled /\ HomeUnmount
    \/ HomeLocalSettled /\ \E r \in BagToSet(homeNet) : HomeServerAnswer(r)
    \/ HomeLocalSettled /\ \E r \in BagToSet(homeNet) : HomeReceive(r)
    \/ HomeLocalSettled /\ \E r \in BagToSet(homeNet), resp \in {ErrResp, RejectResp} :
         HomeFail(r, resp)
    \/ HomeLocalSettled /\ ServerCreate
    \/ HomeLocalSettled /\ \E i \in 1..MaxIssues, s \in StatusActions : ServerUpdate(i, s)
    \/ HomeLocalSettled /\ OnIssueUpdated
    \/ HomeLocalSettled /\ OnNewIssue

SpecHome == InitHome /\ [][NextHome]_vars

(***************************************************************************)
(* HomeScreen: claims                                                      *)
(***************************************************************************)

\* The ids of a list, in order
Ids(list) == [k \in 1..Len(list) |-> list[k].id]

\* C1: handling issue_updated {issue_id: i, status: s} keeps the length and
\* order of the list, leaves every entry whose id is not i as it was, keeps
\* every field but status of the entries whose id is i and sets their status
\* to s; with no entry of id i the list is unchanged.
C1_PatchFrame ==
    [][hAct'.name = "issue_updated" =>
        /\ Len(homeIssues') = Len(homeIssues)
        /\ \A k \in 1..Len(homeIssues) :
              /\ homeIssues[k].id # hAct'.id => homeIssues'[k] = homeIssues[k]
              /\ homeIssues[k].id = hAct'.id =>
                    /\ homeIssues'[k] = [homeIssues[k] EXCEPT !.status = homeIssues'[k].status]
                    /\ homePhase = "mounted" => homeIssues'[k].status = hAct'.status
        /\ (\A k \in 1..Len(homeIssues) : homeIssues[k].id # hAct'.id)
              => homeIssues' = homeIssues
        /\ homeStats' = homeStats
      ]_vars

\* C1 witness: a patch has just been applied to a list that holds the patched
\* entry and another entry whose status differs from the pushed one
C1_Witness ==
    /\ hAct.name = "issue_updated"
    /\ homePhase = "mounted"
    /\ \E k, j \in 1..Len(homeIssues) :
          /\ homeIssues[k].id = hAct.id
          /\ homeIssues[k].status = hAct.status
          /\ homeIssues[j].id # hAct.id
          /\ homeIssues[j].status # hAct.status

\* C2: n new_issue events cause n GET /api/issues requests (beyond the two of
\* the initial load), each handler run adds exactly one loadIssues request and
\* leaves the list alone, and entries enter or leave the list only when a
\* loadIssues response is applied.
C2_OneFetchPerNewIssue ==
    /\ [](hGets = (IF homePhase = "init" THEN 0 ELSE 2) + hNewIssue)
    /\ [][hAct'.name = "new_issue" =>
            /\ homeIssues' = homeIssues
            /\ hNewIssue' = hNewIssue + 1
            /\ homeNet' = homeNet (+) SetToBag({HomeReq("loadIssues", FALSE)})
         ]_vars
    /\ [][Ids(homeIssues') # Ids(homeIssues) => hAct'.name = "loadIssues"]_vars

\* C2 witness: two new_issue events have been handled and their two requests
\* are in flight while the list still lacks the new entries
C2_Witness ==
    /\ hAct.name = "new_issue"
    /\ hNewIssue = 2
    /\ hGets = 4
    /\ Len(homeIssues) < Len(db)

\* C10 (the claim as stated): one socket per mount, and after unmount none of
\* the screen's sockets is connected
C10_SocketTornDown ==
    /\ homePhase # "init" => sockOpened = 1
    /\ homePhase = "unmounted" => sockConnected = 0

\* C20: when the mounted home screen applies a loadStats response,
\* resolved_issues becomes the number of entries of the response's list whose
\* status is 'resolved', total_issues the response's total (0 for a body
\* without one) and pending_issues their difference; in every state
\* total_issues = resolved_issues + pending_issues.
C20_StatsFromList ==
    /\ [](homeStats.total_issues = homeStats.resolved_issues + homeStats.pending_issues)
    /\ [][(hAct'.name = "loadStats" /\ hAct'.status # "reject" /\ homePhase = "mounted") =>
            \E r \in BagToSet(homeNet) :
               LET resp == IF hAct'.status = "ok" THEN r.resp ELSE ErrResp
                   resolved == Cardinality({k \in 1..Len(resp.issues) :
                                               resp.issues[k].status = "resolved"})
               IN /\ r.fn = "loadStats"
                  /\ homeNet' = homeNet (-) SetToBag({r})
                  /\ homeStats'.resolved_issues = resolved
                  /\ homeStats'.total_issues = resp.total
                  /\ homeStats'.pending_issues = resp.total - resolved
         ]_vars

\* C20 witness: a stats load has just been applied whose list holds a resolved
\* and an unresolved issue
C20_Witness ==
    /\ hAct.name = "loadStats"
    /\ hAct.status = "ok"
    /\ homePhase = "mounted"
    /\ homeStats.total_issues = 2
    /\ homeStats.resolved_issues = 1
    /\ homeStats.pending_issues = 1

(***************************************************************************)
(* AdminScreen                                                             *)
(***************************************************************************)

\* setTimeout(..., 500) of the search effect, in ms
DebounceMs == 500

\* The clock advances in steps of half the debounce delay
TickMs == DebounceMs \div 2

\* Bound: search-box edits in a run of SpecSearch
MaxSearchEdits == 3

\* Bound: search edits, status presses, remove presses and refresh gestures,
\* taken together, in a run of SpecAdmin
MaxAdminActions == 1

\* The texts typed into the search box
Queries == {<<>>, <<"a">>, <<"a", "&">>}

\* encodeURIComponent on one character: unreserved characters stay, the
\* others become %XX
EncodeChar(c) ==
    IF c = "&" THEN <<"%", "2", "6">>
    ELSE IF c = " " THEN <<"%", "2", "0">>
    ELSE IF c = "%" THEN <<"%", "2", "5">>
    ELSE <<c>>

\* encodeURIComponent(searchQuery)
RECURSIVE EncodeURIComponent(_)
EncodeURIComponent(str) ==
    IF str = <<>> THEN <<>>
    ELSE EncodeChar(Head(str)) \o EncodeURIComponent(Tail(str))

\* The value of ?search= in the URL loadAllIssues builds for the query it
\* closes over; <<>> stands for a URL without the parameter
SearchParam(q) == IF q # <<>> THEN EncodeURIComponent(q) ELSE <<>>

\* Backend: the character a %XX escape stands for
Unescape(h, l) ==
    IF <<h, l>> = <<"2", "6">> THEN "&"
    ELSE IF <<h, l>> = <<"2", "0">> THEN " "
    ELSE "%"

\* Backend: the query string up to the next parameter separator
RECURSIVE ParamValue(_)
ParamValue(str) ==
    IF str = <<>> \/ Head(str) = "&" THEN <<>>
    ELSE <<Head(str)>> \o ParamValue(Tail(str))

\* Backend: percent-decoding
RECURSIVE PercentDecode(_)
PercentDecode(str) ==
    IF str = <<>> THEN <<>>
    ELSE IF Head(str) = "%" /\ Len(str) >= 3
      THEN <<Unescape(str[2], str[3])>> \o PercentDecode(SubSeq(str, 4, Len(str)))
      ELSE <<Head(str)>> \o PercentDecode(Tail(str))

\* Backend: the search text a request's URL carries
ParseSearch(param) == PercentDecode(ParamValue(param))

\* Backend: q occurs in title
Contains(title, q) ==
    \E k \in 0..(Len(title) - Len(q)) : SubSeq(title, k + 1, k + Len(q)) = q

\* Backend: GET /api/issues[?search=<q>] over the stored issues
Search(list, param) ==
    SelectSeq(list, LAMBDA x : Contains(x.title, ParseSearch(param)))

\* Backend: GET /api/admin/stats over the stored issues
StatsOf(list) ==
    [loaded |-> TRUE, total_issues |-> Len(list),
     pending_issues |-> CountStatus(list, "reported") + CountStatus(list, "acknowledged"),
     in_progress_issues |-> CountStatus(list, "in_progress"),
     resolved_issues |-> CountStatus(list, "resolved")]

\* Backend: the stored issues without issue id
Without(list, id) == SelectSeq(list, LAMBDA x : x.id # id)

\* Backend: the stored issues with issue id set to status
WithStatus(list, id, status) ==
    [k \in 1..Len(list) |->
        IF list[k].id = id THEN [list[k] EXCEPT !.status = status] ELSE list[k]]

HasId(list, id) == \E k \in 1..Len(list) : list[k].id = id

\* A request of the admin screen. flow names the Promise.all that awaits it
\* ("init", "refresh") or "none"; q is the searchQuery its handler closed over.
AdminReq(fn, flow, param, id, status, q) ==
    [fn |-> fn, flow |-> flow, param |-> param, id |-> id, status |-> status,
     q |-> q, resp |-> NoResp]

\* loadAllIssues() of the render whose searchQuery is q
LoadAllIssues(flow, q) == AdminReq("issues", flow, SearchParam(q), 0, "", <<>>)

\* loadAdminStats()
LoadAdminStats(flow) == AdminReq("stats", flow, <<>>, 0, "", <<>>)

\* Promise.all([loadAdminStats(), loadAllIssues()])
Refetch(flow, q) == SetToBag({LoadAdminStats(flow), LoadAllIssues(flow, q)})

\* (mutant) the render guards without the role test
AdminViewNoRole ==
    IF adminUser = "null" THEN "login"
    ELSE IF adminLoading THEN "loading"
    ELSE "dashboard"

\* What the component renders (the guards before the dashboard JSX)
AdminView ==
    IF adminUser = "null" THEN "login"
    ELSE IF adminUser # "admin" THEN "denied"
    ELSE IF adminLoading THEN "loading"
    ELSE "dashboard"

\* The dashboard is on screen and no dialog covers it
AdminInteractive ==
    /\ adminPhase # "init"
    /\ AdminView = "dashboard"
    /\ ~adminConfirm.open

\* useEffect(initializeScreen, []) and the first run of the search effect:
\* searchQuery is '', so loadAllIssues() is called at once
AdminMount ==
    /\ adminPhase = "init"
    /\ adminPhase' = "user"
    /\ adminNet' = adminNet (+) SetToBag({LoadAllIssues("none", searchQuery)})
    /\ hFired' = 1
    /\ hSinceEdit' = DebounceMs
    /\ hAct' = Act("adminMount", 0, "")
    /\ UNCHANGED <<db, homeVars, reportVars, cachedUser, adminUser, adminStats, adminIssues,
                   adminLoading, adminRefreshing, searchQuery, adminTimers,
                   adminConfirm, hIntermediate, hEdits, hCancelled, hMutations, hFailed>>

\* initializeScreen after await loadUser()
AdminLoadUser ==
    /\ adminPhase = "user"
    /\ adminPhase' = "ready"
    /\ adminUser' = cachedUser
    /\ IF cachedUser = "admin"
         THEN /\ adminNet' = adminNet (+) Refetch("init", searchQuery)
              /\ UNCHANGED adminLoading
         ELSE /\ adminLoading' = FALSE
              /\ UNCHANGED adminNet
    /\ hAct' = Act("loadUser", 0, cachedUser)
    /\ UNCHANGED <<db, homeVars, reportVars, cachedUser, adminStats, adminIssues,
                   adminRefreshing, searchQuery, adminTimers, adminConfirm,
                   hSinceEdit, hFired, hIntermediate, hEdits, hCancelled, hMutations,
                   hFailed>>

\* (mutant) the effect returns no cleanup: the pending timer stays armed
ClearTimeoutNone(timers) == timers

\* return () => clearTimeout(timeoutId): the cleanup of the previous effect run
ClearTimeout(timers) == {}

\* onChangeText={setSearchQuery} followed by the search effect for the new query
AdminEdit(q) ==
    /\ AdminInteractive
    /\ q # searchQuery
    /\ searchQuery' = q
    /\ IF q # <<>>
         THEN /\ adminTimers' = ClearTimeout(adminTimers) \cup {[q |-> q, left |-> DebounceMs]}
              /\ UNCHANGED adminNet
              /\ hFired' = 0
         ELSE /\ adminTimers' = ClearTimeout(adminTimers)
              /\ adminNet' = adminNet (+) SetToBag({LoadAllIssues("none", q)})
              /\ hFired' = 1
    /\ hIntermediate' = (hIntermediate \/ (hFired > 0 /\ hSinceEdit < DebounceMs))
    /\ hSinceEdit' = 0
    /\ hEdits' = hEdits + 1
    /\ hCancelled' = hCancelled + Cardinality(adminTimers \ ClearTimeout(adminTimers))
    /\ hAct' = Act("edit", 0, "")
    /\ UNCHANGED <<db, homeVars, reportVars, cachedUser, adminPhase, adminUser, adminStats,
                   adminIssues, adminLoading, adminRefreshing, adminConfirm,
                   hMutations, hFailed>>

Min(a, b) == IF a < b THEN a ELSE b

Max(a, b) == IF a > b THEN a ELSE b

\* TickMs pass; a timer that is due fires before more time passes
AdminTick ==
    /\ adminPhase # "init"
    /\ \A t \in adminTimers : t.left > 0
    /\ adminTimers # {} \/ hSinceEdit < DebounceMs
    /\ adminTimers' = {[t EXCEPT !.left = Max(0, t.left - TickMs)] : t \in adminTimers}
    /\ hSinceEdit' = Min(DebounceMs, hSinceEdit + TickMs)
    /\ hAct' = Act("server", 0, "")
    /\ UNCHANGED <<db, homeVars, reportVars, cachedUser, adminPhase, adminUser, adminStats,
                   adminIssues, adminLoading, adminRefreshing, searchQuery,
                   adminConfirm, adminNet, hFired, hIntermediate, hEdits, hCancelled,
                   hMutations, hFailed>>

\* The setTimeout callback of the search effect: loadAllIssues() of the render
\* that armed it
AdminTimerFires(t) ==
    /\ t \in adminTimers
    /\ t.left = 0
    /\ adminTimers' = adminTimers \ {t}
    /\ adminNet' = adminNet (+) SetToBag({LoadAllIssues("none", t.q)})
    /\ hFired' = hFired + 1
    /\ hAct' = Act("timer", 0, "")
    /\ UNCHANGED <<db, homeVars, reportVars, cachedUser, adminPhase, adminUser, adminStats,
                   adminIssues, adminLoading, adminRefreshing, searchQuery,
                   adminConfirm, hSinceEdit, hIntermediate, hEdits, hCancelled, hMutations,
                   hFailed>>

\* onRefresh
AdminRefresh ==
    /\ AdminInteractive
    /\ ~adminRefreshing
    /\ \A r \in BagToSet(adminNet) : r.flow # "refresh"
    /\ adminRefreshing' = TRUE
    /\ adminNet' = adminNet (+) Refetch("refresh", searchQuery)
    /\ hMutations' = hMutations + 1
    /\ hAct' = Act("refresh", 0, "")
    /\ UNCHANGED <<db, homeVars, reportVars, cachedUser, adminPhase, adminUser, adminStats,
                   adminIssues, adminLoading, searchQuery, adminTimers,
                   adminConfirm, hSinceEdit, hFired, hIntermediate, hEdits, hCancelled,
                   hFailed>>

\* (mutant) no status button is disabled
AdminPressStatusAny(k, status) ==
    /\ AdminInteractive
    /\ k \in 1..Len(adminIssues)
    /\ adminNet' = adminNet (+)
          SetToBag({AdminReq("put", "none", <<>>, adminIssues[k].id, status, searchQuery)})
    /\ hMutations' = hMutations + 1
    /\ hAct' = Act("pressStatus", 0, "")
    /\ UNCHANGED <<db, homeVars, reportVars, cachedUser, adminPhase, adminUser, adminStats,
                   adminIssues, adminLoading, adminRefreshing, searchQuery,
                   adminTimers, adminConfirm, hSinceEdit, hFired, hIntermediate,
                   hEdits, hCancelled, hFailed>>

\* A status button of issue k: updateIssueStatus(issue.id, action.value); the
\* button whose value is the issue's displayed status is disabled
AdminPressStatus(k, status) ==
    /\ AdminInteractive
    /\ k \in 1..Len(adminIssues)
    /\ adminIssues[k].status # status
    /\ adminNet' = adminNet (+)
          SetToBag({AdminReq("put", "none", <<>>, adminIssues[k].id, status, searchQuery)})
    /\ hMutations' = hMutations + 1
    /\ hAct' = Act("pressStatus", 0, "")
    /\ UNCHANGED <<db, homeVars, reportVars, cachedUser, adminPhase, adminUser, adminStats,
                   adminIssues, adminLoading, adminRefreshing, searchQuery,
                   adminTimers, adminConfirm, hSinceEdit, hFired, hIntermediate,
                   hEdits, hCancelled, hFailed>>

\* The Remove button of issue k: deleteIssue(issue.id) shows the dialog
AdminPressRemove(k) ==
    /\ AdminInteractive
    /\ k \in 1..Len(adminIssues)
    /\ adminConfirm' = [open |-> TRUE, id |-> adminIssues[k].id, q |-> searchQuery]
    /\ hMutations' = hMutations + 1
    /\ hAct' = Act("pressRemove", 0, "")
    /\ UNCHANGED <<db, homeVars, reportVars, cachedUser, adminPhase, adminUser, adminStats,
                   adminIssues, adminLoading, adminRefreshing, searchQuery,
                   adminTimers, adminNet, hSinceEdit, hFired, hIntermediate,
                   hEdits, hCancelled, hFailed>>

\* (mutant) 'Cancel' dismisses the dialog and sends the DELETE all the same
AdminConfirmCancelSends ==
    /\ adminConfirm.open
    /\ adminConfirm' = NoConfirm
    /\ adminNet' = adminNet (+)
          SetToBag({AdminReq("delete", "none", <<>>, adminConfirm.id, "", adminConfirm.q)})
    /\ hAct' = Act("confirmCancel", 0, "")
    /\ UNCHANGED <<db, homeVars, reportVars, cachedUser, adminPhase, adminUser, adminStats,
                   adminIssues, adminLoading, adminRefreshing, searchQuery,
                   adminTimers, hSinceEdit, hFired, hIntermediate, hEdits, hCancelled,
                   hMutations, hFailed>>

\* 'Cancel' in the dialog
AdminConfirmCancel ==
    /\ adminConfirm.open
    /\ adminConfirm' = NoConfirm
    /\ hAct' = Act("confirmCancel", 0, "")
    /\ UNCHANGED <<db, homeVars, reportVars, cachedUser, adminPhase, adminUser, adminStats,
                   adminIssues, adminLoading, adminRefreshing, searchQuery,
                   adminTimers, adminNet, hSinceEdit, hFired, hIntermediate,
                   hEdits, hCancelled, hMutations, hFailed>>

\* 'Delete' in the dialog: onPress up to its fetch
AdminConfirmDelete ==
    /\ adminConfirm.open
    /\ adminConfirm' = NoConfirm
    /\ adminNet' = adminNet (+)
          SetToBag({AdminReq("delete", "none", <<>>, adminConfirm.id, "", adminConfirm.q)})
    /\ hAct' = Act("confirmDelete", 0, "")
    /\ UNCHANGED <<db, homeVars, reportVars, cachedUser, adminPhase, adminUser, adminStats,
                   adminIssues, adminLoading, adminRefreshing, searchQuery,
                   adminTimers, hSinceEdit, hFired, hIntermediate, hEdits, hCancelled,
                   hMutations, hFailed>>

\* Backend: what a request does to the stored issues
ServerApply(r) ==
    IF r.fn = "put" THEN WithStatus(db, r.id, r.status)
    ELSE IF r.fn = "delete" THEN Without(db, r.id)
    ELSE db

\* Backend: the 2xx answer to a request
ServerResult(r) ==
    IF r.fn = "issues" THEN OkResp(Search(db, r.param))
    ELSE IF r.fn = "stats" THEN OkResp(db)
    ELSE OkResp(<<>>)

\* Backend: a request in flight is served with a 2xx
AdminServerAnswer(r) ==
    /\ BagIn(r, adminNet)
    /\ r.resp.kind = "none"
    /\ r.fn \in {"put", "delete"} => HasId(db, r.id)
    /\ db' = ServerApply(r)
    /\ adminNet' = (adminNet (-) SetToBag({r}))
                     (+) SetToBag({[r EXCEPT !.resp = ServerResult(r)]})
    /\ hAct' = Act("server", 0, "")
    /\ UNCHANGED <<homeVars, reportVars, cachedUser, adminPhase, adminUser, adminStats,
                   adminIssues, adminLoading, adminRefreshing, searchQuery,
                   adminTimers, adminConfirm, hSinceEdit, hFired, hIntermediate,
                   hEdits, hCancelled, hMutations, hFailed>>

\* The Alert.alert a handler raises for a response
AdminAlert(fn, ok) ==
    IF fn = "stats" THEN (IF ok THEN "" ELSE "Failed to load statistics")
    ELSE IF fn = "issues" THEN (IF ok THEN "" ELSE "Failed to load issues")
    ELSE IF fn = "put"
      THEN (IF ok THEN "Issue status updated successfully"
            ELSE "Failed to update issue status")
    ELSE (IF ok THEN "Issue removed successfully" ELSE "Failed to remove issue")

\* (mutant) the handler re-fetches whatever the response was
AfterMutationAlways(r, ok) == Refetch("none", r.q)

\* updateIssueStatus / the Delete onPress after the response: on response.ok
\* await Promise.all([loadAdminStats(), loadAllIssues()]), otherwise nothing
AfterMutation(r, ok) == IF ok THEN Refetch("none", r.q) ELSE EmptyBag

\* (mutant) the delete handler drops the issue from the list itself
IssuesAfterPatched(r, resp) ==
    IF r.fn = "issues" /\ resp.kind = "ok" THEN resp.issues
    ELSE IF r.fn = "delete" THEN Without(adminIssues, r.id)
    ELSE adminIssues

\* issues after the handler of request r got resp: only loadAllIssues with
\* response.ok calls setIssues(data.issues || [])
IssuesAfter(r, resp) ==
    IF r.fn = "issues" /\ resp.kind = "ok" THEN resp.issues ELSE adminIssues

\* (mutant) the update handler counts a resolved issue into the stats itself
StatsAfterLocal(r, resp) ==
    IF r.fn = "stats" /\ resp.kind = "ok" THEN StatsOf(resp.issues)
    ELSE IF r.fn = "put" /\ resp.kind = "ok"
      THEN [adminStats EXCEPT !.resolved_issues = @ + 1]
    ELSE adminStats

\* stats after the handler of request r got resp: only loadAdminStats with
\* response.ok calls setStats(data)
StatsAfter(r, resp) ==
    IF r.fn = "stats" /\ resp.kind = "ok" THEN StatsOf(resp.issues) ELSE adminStats

\* The handler of request r continues after its awaits with resp
AdminContinue(r, resp) ==
    LET rest == adminNet (-) SetToBag({r})
        last == r.flow # "none" /\ \A o \in BagToSet(rest) : o.flow # r.flow
    IN /\ adminNet' = rest (+) (IF r.fn \in {"put", "delete"}
                                  THEN AfterMutation(r, resp.kind = "ok")
                                  ELSE EmptyBag)
       /\ adminIssues' = IssuesAfter(r, resp)
       /\ adminStats' = StatsAfter(r, resp)
       /\ adminLoading' = IF last /\ r.flow = "init" THEN FALSE ELSE adminLoading
       /\ adminRefreshing' = IF last /\ r.flow = "refresh" THEN FALSE ELSE adminRefreshing
       /\ hAct' = ActAlert(r.fn, r.id, resp.kind, AdminAlert(r.fn, resp.kind = "ok"))

\* A 2xx answer reaches the screen
AdminReceive(r) ==
    /\ BagIn(r, adminNet)
    /\ r.resp.kind = "ok"
    /\ AdminContinue(r, r.resp)
    /\ UNCHANGED <<db, homeVars, reportVars, cachedUser, adminPhase, adminUser, searchQuery,
                   adminTimers, adminConfirm, hSinceEdit, hFired, hIntermediate,
                   hEdits, hCancelled, hMutations, hFailed>>

\* The request fails: a non-2xx answer, or fetch rejects
AdminFail(r, resp) ==
    /\ BagIn(r, adminNet)
    /\ r.resp.kind = "none"
    /\ hFailed' = TRUE
    /\ AdminContinue(r, resp)
    /\ UNCHANGED <<db, homeVars, reportVars, cachedUser, adminPhase, adminUser, searchQuery,
                   adminTimers, adminConfirm, hSinceEdit, hFired, hIntermediate,
                   hEdits, hCancelled, hMutations>>

\* The home screen before it is mounted
HomeIdle ==
    /\ homePhase = "init"
    /\ homeIssues = <<>>
    /\ homeStats = [total_issues |-> 0, resolved_issues |-> 0, pending_issues |-> 0]
    /\ homeLoading = TRUE
    /\ homeUser = "null"
    /\ homeLocation = "null"
    /\ homeInit = {}
    /\ homeNet = EmptyBag
    /\ sockOpened = 0
    /\ sockConnected = 0
    /\ sockQ = <<>>
    /\ hGets = 0
    /\ hNewIssue = 0
    /\ hServerEvents = 0

InitAdmin ==
    /\ db = <<Issue(1, "reported"), Issue(2, "resolved")>>
    /\ hAct = Act("none", 0, "")
    /\ HomeIdle
    /\ ReportIdle
    /\ cachedUser \in {"null", "admin", "citizen"}
    /\ AdminUnmounted

\* More user actions are allowed in this run
AdminBudget == hEdits + hMutations < MaxAdminActions

\* The whole screen
NextAdmin ==
    \/ AdminMount
    \/ AdminLoadUser
    \/ AdminBudget /\ \E q \in Queries : AdminEdit(q)
    \/ AdminTick
    \/ \E t \in adminTimers : AdminTimerFires(t)
    \/ AdminBudget /\ AdminRefresh
    \/ AdminBudget /\
         \E k \in 1..Len(adminIssues), st \in StatusActions : AdminPressStatus(k, st)
    \/ AdminBudget /\ \E k \in 1..Len(adminIssues) : AdminPressRemove(k)
    \/ AdminConfirmCancel
    \/ AdminConfirmDelete
    \/ \E r \in BagToSet(adminNet) : AdminServerAnswer(r)
    \/ \E r \in BagToSet(adminNet) : AdminReceive(r)
    \/ \E r \in BagToSet(adminNet), resp \in {ErrResp, RejectResp} : AdminFail(r, resp)

SpecAdmin == InitAdmin /\ [][NextAdmin]_vars

\* The search box alone: the administrator only edits the query
NextSearch ==
    \/ AdminMount
    \/ AdminLoadUser
    \/ hEdits < MaxSearchEdits /\ \E q \in Queries : AdminEdit(q)
    \/ AdminTick
    \/ \E t \in adminTimers : AdminTimerFires(t)
    \/ \E r \in BagToSet(adminNet) : AdminServerAnswer(r)
    \/ \E r \in BagToSet(adminNet) : AdminReceive(r)

SpecSearch == InitAdmin /\ [][NextSearch]_vars

(***************************************************************************)
(* AdminScreen: claims                                                     *)
(***************************************************************************)

\* C5 (the claim as stated): no request is ever sent for a query that was
\* replaced within DebounceMs, and while the query is non-empty the search
\* effect has issued at most one request for it, DebounceMs after the edit
C5_NoIntermediateRequest ==
    /\ ~hIntermediate
    /\ (searchQuery # <<>> /\ hFired > 0) => (hFired = 1 /\ hSinceEdit >= DebounceMs)

\* C5 (amended): an edit to a non-empty query cancels the pending timer, arms
\* one timer of DebounceMs for the new query and sends nothing; when the timer
\* expires with no further edit exactly one GET /api/issues is issued whose
\* search parameter decodes to the current query; an edit to the empty query
\* cancels the pending timer and issues one unfiltered GET at once, which is
\* the only way a request is sent for a query replaced within DebounceMs.
C5_Debounce ==
    /\ [](adminPhase # "init" =>
            /\ Cardinality(adminTimers) <= 1
            /\ \A t \in adminTimers :
                  t.q = searchQuery /\ t.q # <<>> /\ t.left = DebounceMs - hSinceEdit
            /\ searchQuery # <<>> =>
                  \/ hFired = 0 /\ adminTimers # {}
                  \/ hFired = 1 /\ adminTimers = {} /\ hSinceEdit >= DebounceMs
            /\ searchQuery = <<>> => hFired = 1 /\ adminTimers = {})
    /\ [][hAct'.name = "timer" =>
            /\ hSinceEdit >= DebounceMs
            /\ searchQuery # <<>>
            /\ \E r \in BagToSet(adminNet') :
                  /\ adminNet' = adminNet (+) SetToBag({r})
                  /\ r.fn = "issues"
                  /\ r.param # <<>>
                  /\ ParseSearch(r.param) = searchQuery
         ]_vars
    /\ [][hAct'.name = "edit" =>
            IF searchQuery' # <<>>
              THEN adminNet' = adminNet
              ELSE \E r \in BagToSet(adminNet') :
                     /\ adminNet' = adminNet (+) SetToBag({r})
                     /\ r.fn = "issues"
                     /\ r.param = <<>>
         ]_vars
    /\ [][(hIntermediate' /\ ~hIntermediate) => searchQuery = <<>>]_vars

\* C5 witness: an edit cancelled the timer of an earlier query, and the timer of
\* the query "a&" has just fired: its request is the only one in flight
C5_Witness ==
    /\ hAct.name = "timer"
    /\ hCancelled >= 1
    /\ searchQuery = <<"a", "&">>
    /\ hFired = 1
    /\ \E r \in BagToSet(adminNet) :
          /\ adminNet = SetToBag({r})
          /\ r.param = <<"a", "%", "2", "6">>

\* C6: when the confirmed DELETE fails (a non-2xx answer or a rejection) the
\* handler leaves the list and the stats as they are, issues no request, and
\* raises an alert with a non-empty message.
C6_DeleteFailure ==
    [][(hAct'.name = "delete" /\ hAct'.status # "ok") =>
          /\ adminIssues' = adminIssues
          /\ adminStats' = adminStats
          /\ hAct'.alert # ""
          /\ \E r \in BagToSet(adminNet) :
                r.fn = "delete" /\ adminNet' = adminNet (-) SetToBag({r})
      ]_vars

\* C6 witness: a DELETE was answered non-2xx, the issue is still listed, the
\* alert is up and nothing is in flight
C6_Witness ==
    /\ hAct.name = "delete"
    /\ hAct.status = "error"
    /\ hAct.alert = "Failed to remove issue"
    /\ HasId(adminIssues, hAct.id)
    /\ adminNet = EmptyBag

\* C7 (the claim as stated): in every state of the mounted screen the dashboard
\* shows only for a cached administrator, the login prompt shows when no user
\* is cached and access-denied shows when a user of another role is cached
C7_GuardsInEveryState ==
    adminPhase # "init" =>
        /\ AdminView = "dashboard" => cachedUser = "admin"
        /\ cachedUser = "null" => AdminView = "login"
        /\ cachedUser \notin {"null", "admin"} => AdminView = "denied"

\* C7 (amended): the dashboard shows only for a cached administrator; with no
\* cached user the login prompt shows; with a cached user of another role the
\* login prompt shows until loadUser has completed and access-denied from
\* then on, whatever has been fetched.
C7_Guards ==
    adminPhase # "init" =>
        /\ AdminView = "dashboard" => (cachedUser = "admin" /\ adminUser = "admin")
        /\ cachedUser = "null" => AdminView = "login"
        /\ cachedUser \notin {"null", "admin"} =>
              AdminView = (IF adminPhase = "user" THEN "login" ELSE "denied")

\* C7 witness: a non-administrator is cached, a fetch has completed and filled
\* the list, and access-denied shows
C7_Witness ==
    /\ cachedUser = "citizen"
    /\ adminPhase = "ready"
    /\ adminIssues # <<>>
    /\ AdminView = "denied"

\* C8: the handler of a PUT or DELETE answered 2xx issues one GET
\* /api/admin/stats and one GET /api/issues and leaves list and stats alone;
\* the list and the stats change only by being replaced with the body of a
\* 2xx fetch response.
C8_RefetchAfterMutation ==
    /\ [][(hAct'.name \in {"put", "delete"} /\ hAct'.status = "ok") =>
            /\ adminIssues' = adminIssues
            /\ adminStats' = adminStats
            /\ \E r \in BagToSet(adminNet), a, b \in BagToSet(adminNet') :
                  /\ r.fn = hAct'.name
                  /\ a.fn = "stats" /\ a.resp.kind = "none"
                  /\ b.fn = "issues" /\ b.resp.kind = "none"
                  /\ adminNet' = (adminNet (-) SetToBag({r})) (+) SetToBag({a, b})
         ]_vars
    /\ [][adminIssues' # adminIssues =>
            \E r \in BagToSet(adminNet) :
               /\ r.fn = "issues" /\ r.resp.kind = "ok"
               /\ adminIssues' = r.resp.issues
               /\ adminNet' = adminNet (-) SetToBag({r})
         ]_vars
    /\ [][adminStats' # adminStats =>
            \E r \in BagToSet(adminNet) :
               /\ r.fn = "stats" /\ r.resp.kind = "ok"
               /\ adminStats' = StatsOf(r.resp.issues)
               /\ adminNet' = adminNet (-) SetToBag({r})
         ]_vars

\* C8 witness: a PUT has just been answered 2xx: both re-fetches are in
\* flight and the list still shows the status from before the update
C8_Witness ==
    /\ hAct.name = "put"
    /\ hAct.status = "ok"
    /\ \E a, b \in BagToSet(adminNet) : a.fn = "stats" /\ b.fn = "issues"
    /\ \E k \in 1..Len(adminIssues), j \in 1..Len(db) :
          /\ adminIssues[k].id = hAct.id
          /\ db[j].id = hAct.id
          /\ db[j].status # adminIssues[k].status

\* Nothing is pending: no request in flight, no timer armed, no dialog open
AdminQuiescent ==
    /\ adminPhase = "ready"
    /\ adminNet = EmptyBag
    /\ adminTimers = {}
    /\ ~adminConfirm.open

\* C9 (the claim as stated): once nothing is pending and no request has
\* failed, the administrator's list is the backend's result for the current
\* query and the stats are the backend's stats
C9_EventuallyConsistent ==
    (AdminQuiescent /\ ~hFailed /\ adminUser = "admin") =>
        /\ adminIssues = Search(db, SearchParam(searchQuery))
        /\ adminStats = StatsOf(db)

(***************************************************************************)
(* ReportScreen (both variants)                                            *)
(***************************************************************************)

\* Bound: POST requests sent in a run
MaxSubmits == 1

\* The texts typed into the title field
Titles == {"", " ", "t"}

\* The texts typed or dictated into the description field
Descriptions == {"", " ", "d"}

\* The values of the issue type menu (issueTypes), and none chosen
IssueTypes == {"", "pothole"}

\* String.prototype.trim on the texts above
Trim(str) == IF str = " " THEN "" ELSE str

\* translate(text, { to: 'en' }) when it resolves
Translate(text) == IF text = "d" THEN "D" ELSE IF text = "e" THEN "E" ELSE text

\* The position Location.getCurrentPositionAsync resolves with
Fix == [known |-> TRUE, latitude |-> 1, longitude |-> 2, accuracy |-> 3]

\* (mutant) the validation without the issue type test
MissingInformationNoType(form) ==
    IF repVariant = "plain"
      THEN Trim(form.title) = ""
      ELSE Trim(form.description) = "" \/ Trim(form.translated) = ""

\* The validation of submitReport after the user test
MissingInformation(form) ==
    IF repVariant = "plain"
      THEN Trim(form.title) = "" \/ form.issue_type = ""
      ELSE \/ form.issue_type = ""
           \/ Trim(form.description) = ""
           \/ Trim(form.translated) = ""

\* (mutant) the button does not look at the loading flag
SubmitDisabledNoLoading ==
    IF repVariant = "plain"
      THEN repForm.title = "" \/ repForm.issue_type = ""
      ELSE \/ repForm.issue_type = ""
           \/ repForm.description = ""
           \/ repForm.translated = ""

\* disabled= of the submit button
SubmitDisabled ==
    \/ repLoading
    \/ IF repVariant = "plain"
         THEN repForm.title = "" \/ repForm.issue_type = ""
         ELSE \/ repForm.issue_type = ""
              \/ repForm.description = ""
              \/ repForm.translated = ""

\* (mutant) the image part is appended whether or not a photo is held
PhotoPartsAlways(photo) == <<[uri |-> photo, name |-> "issue-photo.jpg"]>>

\* The image parts submitReport appends: if (capturedPhoto) one part with the
\* photo's uri, named after the uri's extension
PhotoParts(photo) ==
    IF photo # "null" THEN <<[uri |-> photo, name |-> "issue-photo.jpg"]>> ELSE <<>>

\* (mutant) the voice variant sends the text the user entered
PostBodyEntered ==
    [title |-> repForm.title,
     description |-> repForm.description,
     issue_type |-> repForm.issue_type,
     latitude |-> repForm.latitude,
     longitude |-> repForm.longitude,
     accuracy |-> repForm.accuracy,
     images |-> PhotoParts(repPhoto)]

\* The multipart body submitReport builds from the state it closes over
PostBody ==
    [title |-> repForm.title,
     description |-> IF repVariant = "plain" THEN repForm.description
                                             ELSE repForm.translated,
     issue_type |-> repForm.issue_type,
     latitude |-> repForm.latitude,
     longitude |-> repForm.longitude,
     accuracy |-> repForm.accuracy,
     images |-> PhotoParts(repPhoto)]

\* The form is rendered (the camera view replaces it while cameraVisible) and
\* no alert covers it
ReportInteractive == repPhase = "mounted" /\ ~repCameraVisible /\ repAlerts = {}

\* useEffect(initializeScreen, []); in the voice variant the translate effect
\* runs too and, the description being empty, clears translated
ReportMount ==
    /\ repPhase = "init"
    /\ repPhase' = "mounted"
    /\ repInit' = {"permission", "camera", "user"}
    /\ repForm' = IF repVariant = "voice" THEN [repForm EXCEPT !.translated = ""]
                                         ELSE repForm
    /\ hAct' = Act("reportMount", 0, "")
    /\ UNCHANGED <<db, homeVars, adminVars, hHeard, repCamera, repCameraVisible, repVariant, repUser, repLocation,
                   repPhoto, repLoading, repNet, repAlerts, repTrans, hPosts>>

\* getLocationPermissions up to its second await
ReportLocationPermission(status) ==
    /\ "permission" \in repInit
    /\ repInit' = (repInit \ {"permission"}) \cup
                     (IF status = "granted" THEN {"position"} ELSE {})
    /\ hAct' = ActAlert("locationPermission", 0, status,
                        IF status = "granted" THEN "" ELSE "Permission denied")
    /\ UNCHANGED <<db, homeVars, adminVars, hHeard, repCamera, repCameraVisible, repVariant, repPhase, repUser,
                   repLocation, repForm, repPhoto, repLoading, repNet, repAlerts,
                   repTrans, hPosts>>

\* getLocationPermissions after getCurrentPositionAsync
ReportPosition(ok) ==
    /\ "position" \in repInit
    /\ repInit' = repInit \ {"position"}
    /\ IF ok
         THEN /\ repLocation' = Fix
              /\ repForm' = [repForm EXCEPT !.latitude = Fix.latitude,
                                            !.longitude = Fix.longitude,
                                            !.accuracy = CoordOr0(Fix, "accuracy")]
         ELSE UNCHANGED <<repLocation, repForm>>
    /\ hAct' = ActAlert("position", 0, IF ok THEN "ok" ELSE "reject",
                        IF ok THEN "" ELSE "Location Error")
    /\ UNCHANGED <<db, homeVars, adminVars, hHeard, repCamera, repCameraVisible, repVariant, repPhase, repUser,
                   repPhoto, repLoading, repNet, repAlerts, repTrans, hPosts>>

\* loadUser
ReportLoadUser ==
    /\ "user" \in repInit
    /\ repInit' = repInit \ {"user"}
    /\ repUser' = cachedUser
    /\ hAct' = ActAlert("loadUser", 0, cachedUser,
                        IF cachedUser = "null" THEN "Authentication Required" ELSE "")
    /\ UNCHANGED <<db, homeVars, adminVars, hHeard, repCamera, repCameraVisible, repVariant, repPhase, repLocation,
                   repForm, repPhoto, repLoading, repNet, repAlerts, repTrans,
                   hPosts>>

\* onChangeText of the title field
ReportSetTitle(text) ==
    /\ ReportInteractive
    /\ text # repForm.title
    /\ repForm' = [repForm EXCEPT !.title = text]
    /\ hAct' = Act("setTitle", 0, "")
    /\ UNCHANGED <<db, homeVars, adminVars, hHeard, repCamera, repCameraVisible, repVariant, repPhase, repInit,
                   repUser, repLocation, repPhoto, repLoading, repNet, repAlerts,
                   repTrans, hPosts>>

\* The translate effect for a description that has just changed: an empty one
\* clears translated, a blank one is cleared by handleTranslate, any other
\* starts a translate() call
TranslatedAfter(text, old) == IF Trim(text) = "" THEN "" ELSE old

TransAfter(text, pending) == IF Trim(text) = "" THEN pending ELSE pending \cup {text}

\* onChangeText of the description field (in the voice variant followed by the
\* translate effect)
ReportSetDescription(text) ==
    /\ ReportInteractive
    /\ text # repForm.description
    /\ IF repVariant = "voice"
         THEN /\ repForm' = [repForm EXCEPT
                               !.description = text,
                               !.translated = TranslatedAfter(text, repForm.translated)]
              /\ repTrans' = TransAfter(text, repTrans)
         ELSE /\ repForm' = [repForm EXCEPT !.description = text]
              /\ UNCHANGED repTrans
    /\ hAct' = Act("setDescription", 0, "")
    /\ hHeard' = <<>>
    /\ UNCHANGED <<db, homeVars, adminVars, repCamera, repCameraVisible, repVariant, repPhase, repInit,
                   repUser, repLocation, repPhoto, repLoading, repNet, repAlerts,
                   hPosts>>

\* (mutant) a failed call leaves the translation empty
TranslateFallbackEmpty(text) == ""

\* handleTranslate's catch: setFormData(prev => ({ ...prev, translated: text }))
TranslateFallback(text) == text

\* handleTranslate after await translate(): the result, or the fallback when
\* the call failed
ReportTranslated(text, ok) ==
    /\ text \in repTrans
    /\ repTrans' = repTrans \ {text}
    /\ repForm' = [repForm EXCEPT !.translated = IF ok THEN Translate(text)
                                                         ELSE TranslateFallback(text)]
    /\ hAct' = Act("translated", 0, IF ok THEN "ok" ELSE "reject")
    /\ UNCHANGED <<db, homeVars, adminVars, hHeard, repCamera, repCameraVisible, repVariant, repPhase, repInit,
                   repUser, repLocation, repPhoto, repLoading, repNet, repAlerts,
                   hPosts>>

\* An entry of the issue type menu
ReportSetType(value) ==
    /\ ReportInteractive
    /\ value # ""
    /\ value # repForm.issue_type
    /\ repForm' = [repForm EXCEPT !.issue_type = value]
    /\ hAct' = Act("setType", 0, "")
    /\ UNCHANGED <<db, homeVars, adminVars, hHeard, repCamera, repCameraVisible, repVariant, repPhase, repInit,
                   repUser, repLocation, repPhoto, repLoading, repNet, repAlerts,
                   repTrans, hPosts>>

\* getCameraPermissions
ReportCameraPermission(status) ==
    /\ "camera" \in repInit
    /\ repInit' = repInit \ {"camera"}
    /\ IF status = "reject"
         THEN /\ UNCHANGED repCamera
              /\ hAct' = ActAlert("cameraPermission", 0, status, "Camera Error")
         ELSE /\ repCamera' = status
              /\ hAct' = Act("cameraPermission", 0, status)
    /\ UNCHANGED <<db, homeVars, adminVars, hHeard, repCameraVisible, repVariant, repPhase,
                   repUser, repLocation, repForm, repPhoto, repLoading, repNet,
                   repAlerts, repTrans, hPosts>>

\* The Take Photo button, offered while no photo is attached:
\* setCameraVisible(true)
ReportOpenCamera ==
    /\ ReportInteractive
    /\ repPhoto = "null"
    /\ repCameraVisible' = TRUE
    /\ hAct' = Act("openCamera", 0, "")
    /\ UNCHANGED <<db, homeVars, adminVars, hHeard, repCamera, repVariant, repPhase,
                   repInit, repUser, repLocation, repForm, repPhoto, repLoading,
                   repNet, repAlerts, repTrans, hPosts>>

\* The close button of the camera view: setCameraVisible(false)
ReportCloseCamera ==
    /\ repPhase = "mounted"
    /\ repCameraVisible
    /\ repCameraVisible' = FALSE
    /\ hAct' = Act("closeCamera", 0, "")
    /\ UNCHANGED <<db, homeVars, adminVars, hHeard, repCamera, repVariant, repPhase,
                   repInit, repUser, repLocation, repForm, repPhoto, repLoading,
                   repNet, repAlerts, repTrans, hPosts>>

\* The capture button of the camera view: takePicture. takePictureAsync
\* resolves only on a device that has granted the camera.
ReportTakePicture(ok) ==
    /\ repPhase = "mounted"
    /\ repCameraVisible
    /\ ok => repCamera = "granted"
    /\ IF ok
         THEN /\ repPhoto' = "camera.jpg"
              /\ repCameraVisible' = FALSE
              /\ hAct' = Act("takePicture", 0, "ok")
         ELSE /\ UNCHANGED <<repPhoto, repCameraVisible>>
              /\ hAct' = ActAlert("takePicture", 0, "reject", "Failed to take picture")
    /\ UNCHANGED <<db, homeVars, adminVars, hHeard, repCamera, repVariant, repPhase,
                   repInit, repUser, repLocation, repForm, repLoading, repNet,
                   repAlerts, repTrans, hPosts>>

\* Choose from Gallery (plain variant), offered while no photo is attached:
\* pickImage with outcome "ok", "canceled" or "reject"
ReportPickImage(outcome) ==
    /\ ReportInteractive
    /\ repVariant = "plain"
    /\ repPhoto = "null"
    /\ repPhoto' = IF outcome = "ok" THEN "gallery.jpg" ELSE repPhoto
    /\ hAct' = ActAlert("pickImage", 0, outcome,
                        IF outcome = "reject" THEN "Failed to pick image from gallery"
                                              ELSE "")
    /\ UNCHANGED <<db, homeVars, adminVars, hHeard, repCamera, repCameraVisible, repVariant,
                   repPhase, repInit, repUser, repLocation, repForm, repLoading,
                   repNet, repAlerts, repTrans, hPosts>>

\* retakePicture
ReportRetake ==
    /\ ReportInteractive
    /\ repPhoto # "null"
    /\ repPhoto' = "null"
    /\ hAct' = Act("retakePicture", 0, "")
    /\ UNCHANGED <<db, homeVars, adminVars, hHeard, repCamera, repCameraVisible, repVariant, repPhase, repInit,
                   repUser, repLocation, repForm, repLoading, repNet, repAlerts,
                   repTrans, hPosts>>

\* submitReport up to its fetch. The request remembers the location of the
\* render whose submitReport this is: resetForm of that render reads it.
SubmitReport ==
    /\ repPhase = "mounted"
    /\ IF repUser = "null"
         THEN /\ hAct' = ActAlert("submitReport", 0, "unauthenticated",
                                  "Authentication Required")
              /\ UNCHANGED <<repLoading, repNet, hPosts>>
         ELSE IF MissingInformation(repForm)
           THEN /\ hAct' = ActAlert("submitReport", 0, "missing", "Missing Information")
                /\ UNCHANGED <<repLoading, repNet, hPosts>>
           ELSE /\ repLoading' = TRUE
                /\ repNet' = repNet \cup
                      {[n |-> hPosts + 1, body |-> PostBody, location |-> repLocation]}
                /\ hPosts' = hPosts + 1
                /\ hAct' = Act("submitReport", 0, "sent")
    /\ UNCHANGED <<db, homeVars, adminVars, hHeard, repCamera, repCameraVisible, repVariant, repPhase, repInit,
                   repUser, repLocation, repForm, repPhoto, repAlerts, repTrans>>

\* The submit button, which is disabled while the form is incomplete or a
\* submission is running
ReportPressSubmit ==
    /\ ReportInteractive
    /\ ~SubmitDisabled
    /\ SubmitReport

\* The error field of a non-2xx response body: absent, or the server's text
BodyErrors == {"", "Invalid issue type"}

\* (mutant) the alert ignores the server's text
ReportAlertGeneric(kind, err) ==
    IF kind = "ok" THEN "Issue reported successfully!"
    ELSE IF kind = "error" THEN "Failed to submit report"
    ELSE "Network error. Please try again."

\* The message of the Alert.alert submitReport raises for a response
ReportAlert(kind, err) ==
    IF kind = "ok" THEN "Issue reported successfully!"
    ELSE IF kind = "error" THEN (IF err # "" THEN err ELSE "Failed to submit report")
    ELSE "Network error. Please try again."

\* submitReport after its fetch: kind is "ok" (2xx), "error" (non-2xx, the
\* body's error field being err) or "reject" (fetch or response.json() throws)
ReportReceive(r, kind, err) ==
    /\ r \in repNet
    /\ kind # "error" => err = ""
    /\ repNet' = repNet \ {r}
    /\ repAlerts' = IF kind = "ok" THEN repAlerts \cup {[n |-> r.n, location |-> r.location]}
                                   ELSE repAlerts
    /\ repLoading' = FALSE
    /\ hAct' = [name |-> "post", id |-> 0, status |-> kind,
                alert |-> ReportAlert(kind, err), body |-> err]
    /\ UNCHANGED <<db, homeVars, adminVars, hHeard, repCamera, repCameraVisible, repVariant,
                   repPhase, repInit, repUser, repLocation, repForm, repPhoto,
                   repTrans, hPosts>>

\* The location resetForm reads: that of the render which created the alert's
\* OK handler
ResetLocation(a) == a.location

\* OK on the success alert: resetForm() and router.push (the tab stays
\* mounted); in the voice variant the translate effect sees the emptied
\* description
ReportPressOk(a) ==
    /\ a \in repAlerts
    /\ repAlerts' = repAlerts \ {a}
    /\ repForm' = EmptyForm(ResetLocation(a))
    /\ repPhoto' = "null"
    /\ hAct' = Act("resetForm", 0, "")
    /\ hHeard' = <<>>
    /\ UNCHANGED <<db, homeVars, adminVars, repCamera, repCameraVisible, repVariant, repPhase, repInit,
                   repUser, repLocation, repLoading, repNet, repTrans, hPosts>>

\* Bound: utterances dictated in a run of SpecVoice
MaxUtterances == 3

\* What the web view posts: a transcript (which may be empty) or 'ERROR:' and
\* the recognition error
Messages == {"", "a", "b", "ERROR:no-speech"}

\* msg.startsWith('ERROR:')
StartsWithError(msg) == \E rest \in {"", "no-speech"} : msg = "ERROR:" \o rest

\* (mutant) the utterance is appended without the separating space
VoiceAppendNoSpace(prev, msg) == prev \o msg

\* prev.description ? prev.description + ' ' + msg : msg
VoiceAppend(prev, msg) == IF prev # "" THEN prev \o " " \o msg ELSE msg

\* onMessage of the web view (voice variant; the web view is part of the form,
\* which the camera view replaces), followed by the translate effect when the
\* description has changed
ReportVoiceMessage(msg) ==
    /\ repPhase = "mounted"
    /\ repVariant = "voice"
    /\ ~repCameraVisible
    /\ IF StartsWithError(msg)
         THEN /\ hAct' = ActAlert("voice", 0, "error", msg)
              /\ UNCHANGED <<repForm, repTrans, hHeard>>
         ELSE LET text == VoiceAppend(repForm.description, msg)
              IN /\ IF text # repForm.description
                      THEN /\ repForm' = [repForm EXCEPT
                                            !.description = text,
                                            !.translated =
                                                TranslatedAfter(text, repForm.translated)]
                           /\ repTrans' = TransAfter(text, repTrans)
                      ELSE UNCHANGED <<repForm, repTrans>>
                 /\ hHeard' = Append(hHeard, msg)
                 /\ hAct' = Act("voice", 0, "ok")
    /\ UNCHANGED <<db, homeVars, adminVars, repCamera, repCameraVisible, repVariant,
                   repPhase, repInit, repUser, repLocation, repPhoto, repLoading,
                   repNet, repAlerts, hPosts>>

InitReport ==
    /\ db = <<>>
    /\ hAct = Act("none", 0, "")
    /\ HomeIdle
    /\ AdminUnmounted
    /\ cachedUser \in {"null", "citizen"}
    /\ repVariant \in {"plain", "voice"}
    /\ repPhase = "init"
    /\ repInit = {}
    /\ repUser = "null"
    /\ repLocation = NoLocation
    /\ repForm = EmptyForm(NoLocation)
    /\ repPhoto = "null"
    /\ repCamera = "null"
    /\ repCameraVisible = FALSE
    /\ repLoading = FALSE
    /\ repNet = {}
    /\ repAlerts = {}
    /\ repTrans = {}
    /\ hPosts = 0
    /\ hHeard = <<>>

\* What happens on the screen apart from submitting
ReportStep ==
    \/ ReportMount
    \/ \E status \in {"granted", "denied"} : ReportLocationPermission(status)
    \/ \E ok \in BOOLEAN : ReportPosition(ok)
    \/ ReportLoadUser
    \/ \E text \in Titles : ReportSetTitle(text)
    \/ \E text \in Descriptions : ReportSetDescription(text)
    \/ \E text \in repTrans, ok \in BOOLEAN : ReportTranslated(text, ok)
    \/ \E value \in IssueTypes : ReportSetType(value)
    \/ \E status \in {"granted", "denied", "reject"} : ReportCameraPermission(status)
    \/ ReportOpenCamera
    \/ ReportCloseCamera
    \/ \E ok \in BOOLEAN : ReportTakePicture(ok)
    \/ \E outcome \in {"ok", "canceled", "reject"} : ReportPickImage(outcome)
    \/ ReportRetake
    \/ \E r \in repNet, kind \in {"ok", "error", "reject"}, err \in BodyErrors :
         ReportReceive(r, kind, err)
    \/ \E a \in repAlerts : ReportPressOk(a)

\* The screen as the user drives it
NextReport ==
    \/ ReportStep
    \/ hPosts < MaxSubmits /\ ReportPressSubmit

SpecReport == InitReport /\ [][NextReport]_vars

\* submitReport called in any state of the mounted screen
NextSubmit ==
    \/ ReportStep
    \/ hPosts < MaxSubmits /\ SubmitReport

SpecSubmit == InitReport /\ [][NextSubmit]_vars

\* The descriptions typed or dictated in SpecTranslate: two of them are
\* not blank
Utterances == Descriptions \cup {"e"}

\* The voice variant with a stored user
InitTranslate == InitReport /\ repVariant = "voice" /\ cachedUser = "citizen"

\* The voice variant's description, translation and submission
NextTranslate ==
    \/ ReportMount
    \/ ReportLoadUser
    \/ \E text \in Utterances : ReportSetDescription(text)
    \/ \E text \in repTrans, ok \in BOOLEAN : ReportTranslated(text, ok)
    \/ \E value \in IssueTypes : ReportSetType(value)
    \/ hPosts < MaxSubmits /\ ReportPressSubmit
    \/ \E r \in repNet, kind \in {"ok", "error", "reject"}, err \in BodyErrors :
         ReportReceive(r, kind, err)
    \/ \E a \in repAlerts : ReportPressOk(a)

SpecTranslate == InitTranslate /\ [][NextTranslate]_vars

\* Bound: POST requests sent in a run of SpecLoading
MaxPosts == 2

\* Either variant with a stored user
InitLoading == InitReport /\ cachedUser = "citizen"

\* Filling in the form and submitting it, again and again
NextLoading ==
    \/ ReportMount
    \/ ReportLoadUser
    \/ \E text \in Titles : ReportSetTitle(text)
    \/ \E text \in Descriptions : ReportSetDescription(text)
    \/ \E text \in repTrans, ok \in BOOLEAN : ReportTranslated(text, ok)
    \/ \E value \in IssueTypes : ReportSetType(value)
    \/ hPosts < MaxPosts /\ ReportPressSubmit
    \/ \E r \in repNet, kind \in {"ok", "error", "reject"}, err \in BodyErrors :
         ReportReceive(r, kind, err)
    \/ \E a \in repAlerts : ReportPressOk(a)

SpecLoading == InitLoading /\ [][NextLoading]_vars

\* The voice variant's dictation on the empty form: utterances arrive and
\* translations settle
NextVoice ==
    \/ ReportMount
    \/ ReportLoadUser
    \/ Len(hHeard) < MaxUtterances /\ \E msg \in Messages : ReportVoiceMessage(msg)
    \/ \E text \in repTrans, ok \in BOOLEAN : ReportTranslated(text, ok)

SpecVoice == InitTranslate /\ [][NextVoice]_vars

(***************************************************************************)
(* ReportScreen: claims                                                    *)
(***************************************************************************)

\* C3: in both variants, submitReport called while formData.issue_type is empty
\* sends no POST /api/issues and leaves the form, the photo and the loading
\* flag as they are, whatever the other fields hold and whether or not a user
\* is loaded.
C3_NoTypeNoPost ==
    [][(hAct'.name = "submitReport" /\ repForm.issue_type = "") =>
          /\ hAct'.status # "sent"
          /\ repNet' = repNet
          /\ hPosts' = hPosts
          /\ repForm' = repForm
          /\ repPhoto' = repPhoto
          /\ repLoading' = repLoading
      ]_vars

\* C3 witness: submitReport has just refused a form of the voice variant in
\* which everything but the issue type is filled in, with a user loaded
C3_Witness ==
    /\ hAct.name = "submitReport"
    /\ hAct.alert = "Missing Information"
    /\ repVariant = "voice"
    /\ repUser # "null"
    /\ repForm.issue_type = ""
    /\ repForm.title = "t"
    /\ repForm.description = "d"
    /\ repForm.translated = "D"
    /\ repPhoto # "null"
    /\ repLocation.known
    /\ hPosts = 0

\* C4 (the claim as stated): when the form has been reset after a successful
\* create it is empty, no photo is attached, and latitude, longitude and
\* accuracy are those of the last known device location
C4_ResetToLastLocation ==
    hAct.name = "resetForm" =>
        /\ repForm = EmptyForm(repLocation)
        /\ repPhoto = "null"

\* C11 (the claim as stated): the camera view is open only while camera
\* permission is granted, and every POST /api/issues was sent in a state where
\* the device location had been acquired
C11_PermissionsGate ==
    /\ repCameraVisible => repCamera = "granted"
    /\ \A r \in repNet : r.location.known

\* C12: when a submission fails (a non-2xx answer or a network error) the
\* handler raises an alert whose message is the server's error text when the
\* body carries one and a non-empty fallback otherwise, leaves every formData
\* field and the photo as they are, raises no success alert (so no reset and
\* no navigation can follow) and sets the loading flag to false.
C12_FailurePreservesForm ==
    [][(hAct'.name = "post" /\ hAct'.status # "ok") =>
          /\ hAct'.alert # ""
          /\ hAct'.body # "" => hAct'.alert = hAct'.body
          /\ hAct'.body = "" =>
                hAct'.alert \in {"Failed to submit report",
                                 "Network error. Please try again."}
          /\ repForm' = repForm
          /\ repPhoto' = repPhoto
          /\ repAlerts' = repAlerts
          /\ repLoading' = FALSE
          /\ \E r \in repNet : repNet' = repNet \ {r}
      ]_vars

\* C12 witness: a submission with a photo attached has just been answered
\* non-2xx with the server's text; the filled form and the photo are still
\* there, nothing is in flight and the submit button is enabled again
C12_Witness ==
    /\ hAct.name = "post"
    /\ hAct.status = "error"
    /\ hAct.alert = "Invalid issue type"
    /\ repForm.title = "t"
    /\ repForm.issue_type = "pothole"
    /\ repPhoto # "null"
    /\ repAlerts = {}
    /\ repNet = {}
    /\ ~SubmitDisabled

\* The machine translation of the current description has completed
\* successfully: no call for it is pending and translated holds its result
TranslationDone ==
    /\ repForm.description \notin repTrans
    /\ repForm.translated = Translate(repForm.description)

\* C13 (the claim as stated): in the voice variant the submit button is
\* enabled, and a POST /api/issues is sent, only in states where the
\* translation of the current description has completed successfully
C13_SubmitOnlyWhenTranslated ==
    repVariant = "voice" =>
        /\ (ReportInteractive /\ ~SubmitDisabled) => TranslationDone
        /\ (hAct.name = "submitReport" /\ hAct.status = "sent") => TranslationDone

\* C14: in the voice variant a failed translate call for a non-blank text t
\* sets translated to t and changes nothing else, raises no alert and no
\* error state; when t is still the description, an issue type is chosen and
\* a user is loaded, the submit button is enabled, and pressing it sends a
\* POST /api/issues whose description is t.
C14_FallbackDoesNotBlock ==
    /\ [][(hAct'.name = "translated" /\ hAct'.status = "reject") =>
            /\ hAct'.alert = ""
            /\ \E t \in repTrans :
                  /\ Trim(t) # ""
                  /\ repTrans' = repTrans \ {t}
                  /\ repForm' = [repForm EXCEPT !.translated = t]
            /\ UNCHANGED <<repAlerts, repLoading, repNet, repPhoto, repUser, hPosts>>
            /\ (/\ repForm'.description = repForm'.translated
                /\ repForm'.issue_type # ""
                /\ ~repLoading) => ~SubmitDisabled'
         ]_vars
    /\ [][(/\ hAct'.name = "submitReport"
           /\ repVariant = "voice"
           /\ repUser # "null"
           /\ repForm.issue_type # ""
           /\ Trim(repForm.description) # ""
           /\ repForm.translated = repForm.description) =>
            /\ hAct'.status = "sent"
            /\ \E r \in repNet' \ repNet : r.body.description = repForm.description
         ]_vars

\* C14 witness: the translation of "d" failed and the report has just been
\* sent with "d" itself as its description
C14_Witness ==
    /\ repVariant = "voice"
    /\ hAct.name = "submitReport"
    /\ hAct.status = "sent"
    /\ repForm.description = "d"
    /\ repForm.translated = "d"
    /\ \E r \in repNet : r.n = hPosts /\ r.body.description = "d"

\* C15: the screen holds one image uri or none; a successful capture or pick
\* sets it, a failed capture and a cancelled or failed pick leave it as it
\* is, Remove and the reset after a successful create clear it and nothing
\* else changes it; every body sent has exactly one image part, carrying the
\* held uri, when a photo is held and no image part otherwise.
C15_OnePhoto ==
    /\ [](repPhoto \in {"null", "camera.jpg", "gallery.jpg"})
    /\ [](\A r \in repNet : Len(r.body.images) <= 1)
    /\ [][/\ (hAct'.name = "takePicture" /\ hAct'.status = "ok") => repPhoto' = "camera.jpg"
          /\ (hAct'.name = "pickImage" /\ hAct'.status = "ok") => repPhoto' = "gallery.jpg"
          /\ (hAct'.name \in {"takePicture", "pickImage"} /\ hAct'.status # "ok") =>
                repPhoto' = repPhoto
          /\ hAct'.name \in {"retakePicture", "resetForm"} => repPhoto' = "null"
          /\ repPhoto' # repPhoto =>
                hAct'.name \in {"takePicture", "pickImage", "retakePicture", "resetForm"}
         ]_vars
    /\ [][(hAct'.name = "submitReport" /\ hAct'.status = "sent") =>
            \E r \in repNet' \ repNet :
               /\ repNet' = repNet \cup {r}
               /\ IF repPhoto # "null"
                    THEN /\ Len(r.body.images) = 1
                         /\ r.body.images[1].uri = repPhoto
                    ELSE r.body.images = <<>>
         ]_vars

\* C15 witness: a picture was taken with the camera and the report has just
\* been sent with that one photo as its image part
C15_Witness ==
    /\ hAct.name = "submitReport"
    /\ hAct.status = "sent"
    /\ repPhoto = "camera.jpg"
    /\ repVariant = "plain"
    /\ \E r \in repNet :
          r.n = hPosts /\ Len(r.body.images) = 1 /\ r.body.images[1].uri = "camera.jpg"

\* C16 (the claim as stated): a screen is interactive only once every call of
\* its initializeScreen has settled: the home and admin screens have left
\* their loading state, and the report form accepts input and sends a
\* submission, only in states where no initialization call is pending
C16_InteractiveAfterInit ==
    /\ (homePhase = "mounted" /\ ~homeLoading) => homeInit = {}
    /\ (adminPhase # "init" /\ ~adminLoading) =>
           (adminPhase = "ready" /\ \A r \in BagToSet(adminNet) : r.flow # "init")
    /\ ReportInteractive => repInit = {}
    /\ (hAct.name = "submitReport" /\ hAct.status = "sent") => repInit = {}

(***************************************************************************)
(* Claims about every screen                                               *)
(***************************************************************************)

\* How a step that handled a failure is recorded in hAct: a permission denial,
\* a rejected call, a non-2xx answer, a client validation failure
FailureStatuses == {"denied", "reject", "error", "missing", "unauthenticated"}

\* C17 (the claim as stated, its alert half): whenever a screen has just
\* handled a failure of one of the four kinds, it has raised an alert with a
\* non-empty message
C17_EveryFailureAlerts ==
    hAct.status \in FailureStatuses => hAct.alert # ""

\* C18 (the claim as stated): handling a failed load, update, delete,
\* submission or capture leaves the issue lists, the stats, the form and the
\* photo of every screen as they were
C18_FailureRestoresState ==
    [][hAct'.status \in {"reject", "error"} =>
          /\ homeIssues' = homeIssues
          /\ homeStats' = homeStats
          /\ adminIssues' = adminIssues
          /\ adminStats' = adminStats
          /\ hAct'.name # "translated" => repForm' = repForm
          /\ repPhoto' = repPhoto
      ]_vars

C24_PatchSurvivesRefetch ==
    [][(/\ hAct.name = "issue_updated"
        /\ homePhase = "mounted"
        /\ \E k \in 1..Len(homeIssues) : homeIssues[k].id = hAct.id
        /\ hAct'.name = "loadIssues"
        /\ hAct'.status = "ok") =>
          \A k \in 1..Len(homeIssues') :
              homeIssues'[k].id = hAct.id => homeIssues'[k].status = hAct.status
      ]_vars

\* The displayed stats count the entries of the in-memory list
StatsMatchList ==
    /\ homeStats.resolved_issues = CountStatus(homeIssues, "resolved")
    /\ homeStats.pending_issues = Len(homeIssues) - CountStatus(homeIssues, "resolved")

\* C27 (the claim as stated): once the initial load has settled, an
\* issue_updated patch or an applied re-fetch of the list leaves the stats
\* consistent with the list
C27_StatsFollowList ==
    [][(/\ homePhase = "mounted"
        /\ ~homeLoading
        /\ StatsMatchList
        /\ \/ hAct'.name = "issue_updated"
           \/ hAct'.name = "loadIssues" /\ hAct'.status = "ok") =>
          StatsMatchList'
      ]_vars

(***************************************************************************)
(* AdminScreen: further claims                                             *)
(***************************************************************************)

\* How many requests of kind fn the screen has in flight (fetch called, the
\* handler still awaiting)
InFlight(net, fn) ==
    BagCardinality([r \in {x \in BagToSet(net) : x.fn = fn} |-> CopiesIn(r, net)])

\* C21: a DELETE request is sent only by the Delete button of an open
\* confirmation dialog and is for the issue that dialog was opened for (the
\* dialog is opened only by a Remove press, for the pressed issue, sends
\* nothing by itself and keeps its issue while open); Cancel closes the
\* dialog, sends no request and leaves the issue list, the stats and the
\* backend as they were.
C21_DeleteConfirmed ==
    [][/\ InFlight(adminNet', "delete") > InFlight(adminNet, "delete") =>
            /\ hAct'.name = "confirmDelete"
            /\ adminConfirm.open
            /\ InFlight(adminNet', "delete") = InFlight(adminNet, "delete") + 1
            /\ \E r \in BagToSet(adminNet') :
                  /\ r.fn = "delete"
                  /\ r.id = adminConfirm.id
                  /\ adminNet' = adminNet (+) SetToBag({r})
       /\ (adminConfirm'.open /\ ~adminConfirm.open) =>
            /\ hAct'.name = "pressRemove"
            /\ adminNet' = adminNet
            /\ \E k \in 1..Len(adminIssues) : adminConfirm'.id = adminIssues[k].id
       /\ (adminConfirm.open /\ adminConfirm'.open) => adminConfirm'.id = adminConfirm.id
       /\ hAct'.name = "confirmCancel" =>
            /\ adminConfirm.open
            /\ ~adminConfirm'.open
            /\ adminNet' = adminNet
            /\ UNCHANGED <<adminIssues, adminStats, db>>
      ]_vars

\* C21 witness: the administrator has just chosen Delete in the dialog opened
\* for issue 2 and the DELETE for issue 2 is in flight
C21_Witness ==
    /\ hAct.name = "confirmDelete"
    /\ ~adminConfirm.open
    /\ \E r \in BagToSet(adminNet) : r.fn = "delete" /\ r.id = 2 /\ r.resp.kind = "none"


\* C23 (the claim as stated): while the cached user is absent or not an
\* administrator the admin screen has no GET /api/issues and no
\* GET /api/admin/stats request in flight, and its issues and stats are the
\* initial empty ones
C23_NoFetchWithoutAdmin ==
    cachedUser # "admin" =>
        /\ InFlight(adminNet, "issues") = 0
        /\ InFlight(adminNet, "stats") = 0
        /\ adminIssues = <<>>
        /\ adminStats = NullStats

\* C28: a PUT /api/issues/:id is sent only by a status button, carries one of
\* 'acknowledged', 'in_progress', 'resolved' (never 'reported') and is for a
\* displayed issue whose displayed status differs from the one it carries;
\* while the dashboard is interactive every button whose value differs from
\* its issue's displayed status can be pressed, 'acknowledged' on a resolved
\* issue included.
C28_StatusTransitions ==
    /\ [][InFlight(adminNet', "put") > InFlight(adminNet, "put") =>
            /\ hAct'.name = "pressStatus"
            /\ \E r \in BagToSet(adminNet') :
                  /\ r.fn = "put"
                  /\ adminNet' = adminNet (+) SetToBag({r})
                  /\ r.status \in {"acknowledged", "in_progress", "resolved"}
                  /\ \E k \in 1..Len(adminIssues) :
                        adminIssues[k].id = r.id /\ adminIssues[k].status # r.status
         ]_vars
    /\ [](AdminInteractive =>
            \A k \in 1..Len(adminIssues) :
               \A st \in {"acknowledged", "in_progress", "resolved"} :
                   adminIssues[k].status # st => ENABLED AdminPressStatus(k, st))

\* C28 witness: the PUT that moves the resolved issue 2 back to
\* 'acknowledged' has just been sent
C28_Witness ==
    /\ hAct.name = "pressStatus"
    /\ \E k \in 1..Len(adminIssues) :
          adminIssues[k].id = 2 /\ adminIssues[k].status = "resolved"
    /\ \E r \in BagToSet(adminNet) :
          r.fn = "put" /\ r.id = 2 /\ r.status = "acknowledged" /\ r.resp.kind = "none"

\* C29 (the claim as stated, what it implies for the requests in flight):
\* with a cached administrator, until the dashboard is first displayed at
\* most one GET /api/issues and at most one GET /api/admin/stats have been
\* issued, so at most one of each is in flight
C29_OneLoadAtMount ==
    (cachedUser = "admin" /\ adminLoading) =>
        /\ InFlight(adminNet, "issues") <= 1
        /\ InFlight(adminNet, "stats") <= 1

(***************************************************************************)
(* ReportScreen: further claims                                            *)
(***************************************************************************)

\* The texts of a sequence joined by single spaces
RECURSIVE Join(_)
Join(msgs) ==
    IF msgs = <<>> THEN ""
    ELSE IF Len(msgs) = 1 THEN msgs[1]
    ELSE Join(SubSeq(msgs, 1, Len(msgs) - 1)) \o " " \o msgs[Len(msgs)]

\* A sequence of utterances from its first non-empty one on
RECURSIVE FromFirstHeard(_)
FromFirstHeard(msgs) ==
    IF msgs = <<>> THEN <<>>
    ELSE IF Head(msgs) = "" THEN FromFirstHeard(Tail(msgs))
    ELSE msgs

\* C22 (the claim as stated, its consequence): after utterances m1..mn on an
\* empty description the description is m1 ... mn joined by single spaces
C22_JoinedAll ==
    repForm.description = Join(hHeard)

\* C22 (amended): a message m that does not start with 'ERROR:' makes the
\* description m when it was empty and the old description, one space and m
\* otherwise; a message that starts with 'ERROR:' leaves the form unchanged and
\* raises an alert with the message; so after utterances m1..mn on an empty
\* description the description is the utterances from the first non-empty one
\* on, joined by single spaces in arrival order (m1 ... mn when m1 is not
\* empty): an empty utterance that arrives while the description is empty
\* leaves no space behind.
C22_Appended ==
    /\ [](repForm.description = Join(FromFirstHeard(hHeard)))
    /\ [][hAct'.name = "voice" =>
            IF hAct'.status = "ok"
              THEN /\ hHeard' # hHeard
                   /\ LET m == hHeard'[Len(hHeard')]
                      IN repForm'.description =
                            IF repForm.description = "" THEN m
                            ELSE repForm.description \o " " \o m
              ELSE /\ repForm' = repForm
                   /\ hAct'.alert # ""
         ]_vars

\* C22 witness: three utterances, the second of them empty, have been
\* appended to an empty description
C22_Witness ==
    /\ hAct.name = "voice"
    /\ hHeard = <<"a", "", "b">>
    /\ repForm.description = "a  b"


\* C25 (the claim as stated): in the voice variant the description field of
\* every POST /api/issues sent is the translation, or the failure fallback, of
\* the description that is current when it is sent
C25_SubmitsCurrentTranslation ==
    [][(repVariant = "voice" /\ hAct'.name = "submitReport" /\ hAct'.status = "sent") =>
          \A r \in repNet' \ repNet :
              r.body.description \in {Translate(repForm.description),
                                      TranslateFallback(repForm.description)}
      ]_vars


\* C26: at most one POST /api/issues is in flight; loading is true exactly
\* while one is (it is set when a submission passes validation and cleared
\* when the response, a non-2xx answer or a network error has been handled,
\* and by nothing else) and the submit button is disabled while it is true.
C26_OneSubmissionAtATime ==
    /\ [](Cardinality(repNet) <= 1)
    /\ [](repLoading <=> repNet # {})
    /\ [](repLoading => SubmitDisabled)
    /\ [][/\ (hAct'.name = "submitReport" /\ hAct'.status = "sent") =>
               (~repLoading /\ repLoading' /\ Cardinality(repNet' \ repNet) = 1)
          /\ (hAct'.name = "submitReport" /\ hAct'.status # "sent") =>
               (repLoading' = repLoading /\ repNet' = repNet)
          /\ hAct'.name = "post" => (repLoading /\ ~repLoading' /\ repNet' = {})
          /\ repLoading' # repLoading => hAct'.name \in {"submitReport", "post"}
         ]_vars

\* C26 witness: a second submission has just been sent after the first one
\* failed, and it is the only one in flight
C26_Witness ==
    /\ hAct.name = "submitReport"
    /\ hAct.status = "sent"
    /\ hPosts = 2
    /\ repLoading
    /\ Cardinality(repNet) = 1


\* C30: with a user loaded and an issue type chosen, submitReport of the
\* non-voice variant sends a POST exactly when the title is not blank (the
\* description may be empty) and that of the voice variant exactly when the
\* description and the translated text are both not blank (the title may be
\* empty); without a user or an issue type neither sends; the request's
\* description field is the entered description in the non-voice variant and
\* the translated text in the voice variant.
C30_VariantRequirements ==
    [][hAct'.name = "submitReport" =>
          /\ hAct'.status = "sent" <=>
                /\ repUser # "null"
                /\ repForm.issue_type # ""
                /\ IF repVariant = "plain"
                     THEN Trim(repForm.title) # ""
                     ELSE Trim(repForm.description) # "" /\ Trim(repForm.translated) # ""
          /\ hAct'.status = "sent" =>
                /\ Cardinality(repNet' \ repNet) = 1
                /\ \A r \in repNet' \ repNet :
                      /\ r.body.title = repForm.title
                      /\ r.body.description = IF repVariant = "plain"
                                                THEN repForm.description
                                                ELSE repForm.translated
          /\ hAct'.status # "sent" => repNet' = repNet
      ]_vars

\* C30 witness: the voice variant has just sent a report with an empty title
\* whose description field is the translation, not the entered text
C30_Witness ==
    /\ hAct.name = "submitReport"
    /\ hAct.status = "sent"
    /\ repVariant = "voice"
    /\ repForm.title = ""
    /\ repForm.description = "d"
    /\ \E r \in repNet : r.n = hPosts /\ r.body.description = "D" /\ r.body.title = ""

=============================================================================
